---- MODULE Spec2Model ----
(***************************************************************************)
(* The three Northwind ETL builds (etl_category.py, etl_product.py,        *)
(* etl_orders.py): extract from the transactional store, transform the     *)
(* data frame, clear and reload one table of the reporting store.          *)
(*                                                                         *)
(* Cell values are integers (names and dates are integer codes); NULL is   *)
(* the SQL NULL / pandas NaN.  A Discount d stands for d/100 and an        *)
(* ExtendedPrice is held in hundredths, so that                            *)
(*   Quantity * UnitPrice * (1 - Discount)                                 *)
(* is the integer Quantity * UnitPrice * (100 - d).                        *)
(*                                                                         *)
(* Every call on a store (connect, query, clear, insert, commit) may fail; *)
(* where the code has a handler the failing step includes the handler.     *)
(* The reporting store is SQL Server (config.py): statements run in a      *)
(* transaction until commit (pyodbc's autocommit is off), TRUNCATE TABLE   *)
(* is rolled back like DELETE, and a connection that goes away with an     *)
(* open transaction has it rolled back by the store.                       *)
(***************************************************************************)
EXTENDS Integers, Sequences, FiniteSets, TLC

\* ------------------------------------------------------------- bounds
\* Rows the Categories / Products tables of the transactional store hold.
MaxRows == 2
\* Order-detail rows the transactional store holds.
MaxFactRows == 3
\* Times a build is run again after its first run, its source unchanged.
MaxReruns == 1

NULL == 0 - 1

Range(s) == {s[i] : i \in DOMAIN s}

\* ------------------------------------------------- pandas data frames
\* pd.DataFrame(): no columns, no rows.
EmptyFrame == [columns |-> <<>>, data |-> <<>>]

\* Mutation of IsEmpty: only a frame without columns counts as empty.
IsEmptyColumnsOnly(df) == Len(df.columns) = 0

\* df.empty: any axis of length 0.
IsEmpty(df) == Len(df.columns) = 0 \/ Len(df.data) = 0

HasColumn(df, c) == c \in Range(df.columns)

HasColumns(df, cols) == \A j \in DOMAIN cols : HasColumn(df, cols[j])

ColIndex(df, c) == CHOOSE i \in DOMAIN df.columns : df.columns[i] = c

\* df.rename(columns=m): labels not in the frame are ignored.
Rename(df, m) ==
  [df EXCEPT !.columns =
     [i \in DOMAIN df.columns |->
        IF df.columns[i] \in DOMAIN m THEN m[df.columns[i]] ELSE df.columns[i]]]

\* df[cols] for a list of labels that are all present.
Select(df, cols) ==
  [columns |-> cols,
   data |-> [r \in DOMAIN df.data |->
               [j \in DOMAIN cols |-> df.data[r][ColIndex(df, cols[j])]]]]

\* df.drop(c, axis=1)
Drop(df, c) == Select(df, SelectSeq(df.columns, LAMBDA x : x # c))

\* df[c] = vals for a new label c: the column is appended.
Assign(df, c, vals) ==
  [columns |-> Append(df.columns, c),
   data |-> [r \in DOMAIN df.data |-> Append(df.data[r], vals[r])]]

\* The rows of `right` whose column `on` equals key, in right's order.
MatchRows(key, right, on) ==
  SelectSeq(right.data, LAMBDA r : r[ColIndex(right, on)] = key)

RECURSIVE MergeRows(_, _, _, _, _)
\* how='left': every left row is kept; one output row per matching right row,
\* and one with nulls for right's columns when none matches.
MergeRows(lrows, left, right, left_on, right_on) ==
  IF lrows = <<>> THEN <<>>
  ELSE LET l == Head(lrows)
           ms == MatchRows(l[ColIndex(left, left_on)], right, right_on)
           out == IF ms = <<>>
                  THEN << l \o [j \in DOMAIN right.columns |-> NULL] >>
                  ELSE [k \in DOMAIN ms |-> l \o ms[k]]
       IN out \o MergeRows(Tail(lrows), left, right, left_on, right_on)

\* pd.merge(left, right, left_on=.., right_on=.., how='left')
MergeLeft(left, right, left_on, right_on) ==
  [columns |-> left.columns \o right.columns,
   data |-> MergeRows(left.data, left, right, left_on, right_on)]

\* [tuple(row) for row in df.values]
ToTuples(df) == [r \in DOMAIN df.data |-> df.data[r]]

\* ------------------------------------------------ transactional store
Builds == {"category", "product", "fact"}

\* The SELECT list of each extract query.
SourceColumns(b) ==
  CASE b = "category" -> <<"CategoryID", "CategoryName", "Description">>
    [] b = "product" -> <<"ProductID", "ProductName", "SupplierID", "CategoryID",
                          "QuantityPerUnit", "UnitPrice", "UnitsInStock",
                          "Discontinued">>
    [] b = "fact" -> <<"OrderID", "ProductID", "OrderDate", "RequiredDate",
                       "ShippedDate", "Quantity", "Discount", "UnitPrice">>

CategoryRow(i) == <<i, 10 + i, 20 + i>>

ProductRow(i) == <<i, 30 + i, 40 + i, 50 + i, 60 + i, 70 + i, 80 + i, i % 2>>

\* An order line.  Odd lines order product 1; even lines order a product that
\* the Products table does not hold (its id is above MaxRows), so the key
\* lookup has hits, misses and several lines for one product.
FactRow(j) ==
  <<100 + j, IF j % 2 = 1 THEN 1 ELSE MaxRows + 1, 200 + j, 210 + j,
    IF j % 2 = 0 THEN NULL ELSE 220 + j, j + 1, 25 * (j % 4), 10 * j>>

RECURSIVE Ascending(_, _)
\* The members of ids below or at n, in ascending order, as a sequence.
Ascending(ids, n) ==
  IF n = 0 THEN <<>>
  ELSE IF n \in ids THEN Append(Ascending(ids, n - 1), n)
       ELSE Ascending(ids, n - 1)

SourceSize(b) == IF b = "fact" THEN MaxFactRows ELSE MaxRows

SourceRow(b, i) ==
  CASE b = "category" -> CategoryRow(i)
    [] b = "product" -> ProductRow(i)
    [] b = "fact" -> FactRow(i)

\* What the build's source tables may hold: any subset of the rows, keys unique.
Sources(b) ==
  {[k \in DOMAIN Ascending(ids, SourceSize(b)) |->
      SourceRow(b, Ascending(ids, SourceSize(b))[k])] :
     ids \in SUBSET (1 .. SourceSize(b))}

\* pd.read_sql(sql_query, cnxn) on success.
QueryResult(b, src) == [columns |-> SourceColumns(b), data |-> src]

\* --------------------------------------------------- reporting store
TableNames == {"Dim_Category", "Dim_Product", "Fact_OrderMetrics"}

TARGET_TABLE(b) ==
  CASE b = "category" -> "Dim_Category"
    [] b = "product" -> "Dim_Product"
    [] b = "fact" -> "Fact_OrderMetrics"

\* The column list of each INSERT statement.
InsertColumns(b) ==
  CASE b = "category" -> <<"Source_CategoryID", "CategoryName", "CategoryDescription">>
    [] b = "product" -> <<"Source_ProductID", "ProductName", "Source_SupplierID",
                          "Source_CategoryID", "QuantityPerUnit", "UnitPrice",
                          "UnitsInStock", "Discontinued">>
    [] b = "fact" -> <<"Source_OrderID", "Source_ProductID", "ProductKey",
                       "OrderDate", "RequiredDate", "ShippedDate",
                       "Quantity", "Discount", "ExtendedPrice">>

\* Dim_Product.ProductKey is read by the fact build and written by no INSERT:
\* the store assigns it.
GeneratedColumns(b) == IF b = "product" THEN {"ProductKey"} ELSE {}

\* Mutation of ClearStatement: every load uses the fast clear.
ClearStatementTruncate(b) == "TRUNCATE"

\* The statement each load clears its table with.
ClearStatement(b) ==
  CASE b = "category" -> "TRUNCATE"
    [] b = "product" -> "DELETE"
    [] b = "fact" -> "DELETE"

\* Fact_OrderMetrics has a foreign key to Dim_Product.
ReferencedTables == {"Dim_Product"}

\* The store rejects TRUNCATE TABLE on a table a foreign key references.
TruncateBlocked(kind, t) == kind = "TRUNCATE" /\ t \in ReferencedTables

\* Mutation of Cleared: the clear removes nothing.
ClearedNothing(tbls, t) == tbls

\* TRUNCATE TABLE t / DELETE FROM t: every row of t goes.
Cleared(tbls, t) == [tbls EXCEPT ![t] = <<>>]

\* One stored row: the tuple's values under the INSERT's columns, positionally,
\* and the store's key under the generated column.
InsertRow(b, tuple, key) ==
  [c \in Range(InsertColumns(b)) \cup GeneratedColumns(b) |->
     IF c \in GeneratedColumns(b) THEN key
     ELSE tuple[CHOOSE j \in DOMAIN InsertColumns(b) : InsertColumns(b)[j] = c]]

\* cursor.executemany(insert_sql, rows): keys are assigned from key0 on.
InsertRows(b, rows, key0) ==
  [i \in DOMAIN rows |-> InsertRow(b, rows[i], key0 + i - 1)]

\* Every tuple supplies one value per parameter marker.
ParametersMatch(b, rows) ==
  \A i \in DOMAIN rows : Len(rows[i]) = Len(InsertColumns(b))

\* SELECT ProductKey, Source_ProductID FROM Dim_Product
ProductMapQuery(tbl) ==
  [columns |-> <<"ProductKey", "Source_ProductID">>,
   data |-> [i \in DOMAIN tbl |-> <<tbl[i].ProductKey, tbl[i].Source_ProductID>>]]

\* ---------------------------------------------------------- transforms
KeyError == [ok |-> FALSE, df |-> EmptyFrame]

Returned(df) == [ok |-> TRUE, df |-> df]

CategoryRenames ==
  [CategoryID |-> "Source_CategoryID", Description |-> "CategoryDescription"]

\* etl_category.transform_data
TransformCategory(df) ==
  LET r == Rename(df, CategoryRenames)
  IN IF HasColumns(r, InsertColumns("category"))
     THEN Returned(Select(r, InsertColumns("category")))
     ELSE KeyError

ProductRenames ==
  [ProductID |-> "Source_ProductID", SupplierID |-> "Source_SupplierID",
   CategoryID |-> "Source_CategoryID"]

\* pd.to_numeric(.., errors='coerce') on an integer column: integers are kept,
\* a missing value stays missing.
ToNumeric(v) == IF v = NULL THEN NULL ELSE v

\* df[c] = pd.to_numeric(df[c], errors='coerce') on an existing column.
ToNumericColumn(df, c) ==
  [df EXCEPT !.data =
     [r \in DOMAIN df.data |->
        [j \in DOMAIN df.columns |->
           IF df.columns[j] = c THEN ToNumeric(df.data[r][j]) ELSE df.data[r][j]]]]

\* etl_product.transform_data
TransformProduct(df) ==
  LET r == Rename(df, ProductRenames)
  IN IF ~HasColumn(r, "Source_ProductID") \/ ~HasColumn(r, "UnitPrice")
     THEN KeyError
     ELSE LET n == ToNumericColumn(ToNumericColumn(r, "Source_ProductID"),
                                   "UnitPrice")
          IN IF HasColumns(n, InsertColumns("product"))
             THEN Returned(Select(n, InsertColumns("product")))
             ELSE KeyError

\* Quantity * UnitPrice * (1 - Discount), in hundredths.
ExtendedPrice(q, p, d) == q * p * (100 - d)

\* etl_orders.transform_fact_data, part A: the metric, then UnitPrice dropped.
ComputeMetric(df) ==
  IF ~HasColumns(df, <<"Quantity", "UnitPrice", "Discount">>)
  THEN KeyError
  ELSE LET ep == [r \in DOMAIN df.data |->
                    ExtendedPrice(df.data[r][ColIndex(df, "Quantity")],
                                  df.data[r][ColIndex(df, "UnitPrice")],
                                  df.data[r][ColIndex(df, "Discount")])]
       IN Returned(Drop(Assign(df, "ExtendedPrice", ep), "UnitPrice"))

FactRenames == [ProductID |-> "Source_ProductID", OrderID |-> "Source_OrderID"]

\* Mutation of final_cols: ProductKey is left out of the selection.
final_cols_short ==
  <<"Source_OrderID", "Source_ProductID",
    "OrderDate", "RequiredDate", "ShippedDate",
    "Quantity", "Discount", "ExtendedPrice">>

\* The column list the transformed frame is cut to.
final_cols ==
  <<"Source_OrderID", "Source_ProductID", "ProductKey",
    "OrderDate", "RequiredDate", "ShippedDate",
    "Quantity", "Discount", "ExtendedPrice">>

\* Mutation of LookupMerge: an inner join, which drops the fact rows whose
\* product has no row in the key map.
LookupMergeInner(fact_df, product_map_df) ==
  LET m == MergeLeft(fact_df, product_map_df, "ProductID", "Source_ProductID")
  IN [m EXCEPT !.data = SelectSeq(m.data, LAMBDA r : r[ColIndex(m, "ProductKey")] # NULL)]

\* The lookup: fact rows joined to the key map on the natural key.
LookupMerge(fact_df, product_map_df) ==
  MergeLeft(fact_df, product_map_df, "ProductID", "Source_ProductID")

\* etl_orders.transform_fact_data, parts C and D: merge, drop the map's natural
\* key, rename the source ids, select the final columns.
LookupAndShape(fact_df, product_map_df) ==
  LET merged == LookupMerge(fact_df, product_map_df)
      renamed == Rename(Drop(merged, "Source_ProductID"), FactRenames)
  IN IF HasColumns(renamed, final_cols)
     THEN Returned(Select(renamed, final_cols))
     ELSE KeyError

\* ------------------------------------------------------------- state
VARIABLES
  pc,        \* where the running build is: "idle", a step, "done" or "crashed"
  build,     \* the build that runs: category, product or fact
  entry,     \* "main": the script's __main__; "load": the load function called alone
  source,    \* the rows the build's extract query selects from
  df,        \* the data frame handed from stage to stage
  conns,     \* the connections that are open: <<stage, store>>
  tables,    \* the reporting tables, as the statements issued so far leave them
  undo,      \* the open transaction: what a rollback restores
  nextKey,   \* the next ProductKey the store assigns
  issued,    \* what the run asked of its connections, in order
  preRun,    \* the reporting tables when the run started
  failure,   \* the step at which a store call failed in this run, or "none"
  raised,    \* the exception that ended the run, or "none"
  runs,      \* runs started so far
  lastFinal, \* the target table as the previous run left it
  lastClean  \* the previous run ended with no failure and no exception

vars == <<pc, build, entry, source, df, conns, tables, undo, nextKey, issued,
          preRun, failure, raised, runs, lastFinal, lastClean>>

NoTables == [t \in TableNames |-> <<>>]

NoTransaction == [open |-> FALSE, image |-> NoTables]

Event(stage, op, target, rows) ==
  [stage |-> stage, op |-> op, target |-> target, rows |-> rows]

\* cnxn.rollback(): the tables as they were when the transaction began (the
\* keys the store handed out are not handed out again).
Rollback(tbls, u) == IF u.open THEN u.image ELSE tbls

\* The frames the load functions are called with when called alone: the frame
\* a transform returns, an empty one, and one whose rows lack the last column.
DirectFrames(b) ==
  {EmptyFrame,
   [columns |-> InsertColumns(b), data |-> <<>>],
   [columns |-> InsertColumns(b),
    data |-> << [j \in DOMAIN InsertColumns(b) |-> j] >>],
   [columns |-> SubSeq(InsertColumns(b), 1, Len(InsertColumns(b)) - 1),
    data |-> << [j \in 1 .. Len(InsertColumns(b)) - 1 |-> j] >>]}

\* The reporting store as earlier complete runs of the builds leave it: each
\* table empty or loaded from all of its source rows.
FullSource(b) == [i \in 1 .. SourceSize(b) |-> SourceRow(b, i)]

\* A load into the empty table: the rows, or nothing when the INSERT fails.
LoadedTable(b, frame) ==
  IF ParametersMatch(b, ToTuples(frame))
  THEN InsertRows(b, ToTuples(frame), 1) ELSE <<>>

SeedCategory == {<<>>, LoadedTable("category", TransformCategory(QueryResult("category", FullSource("category"))).df)}

SeedProduct == {<<>>, LoadedTable("product", TransformProduct(QueryResult("product", FullSource("product"))).df)}

SeedFact(dimProduct) ==
  {<<>>,
   LoadedTable("fact",
     LookupAndShape(ComputeMetric(QueryResult("fact", FullSource("fact"))).df,
                    ProductMapQuery(dimProduct)).df)}

Init ==
  /\ pc = "idle"
  /\ build = "category"
  /\ entry = "main"
  /\ source = <<>>
  /\ df = EmptyFrame
  /\ conns = {}
  /\ \E c \in SeedCategory, p \in SeedProduct :
       \E f \in SeedFact(p) :
         /\ tables = [t \in TableNames |->
                        CASE t = "Dim_Category" -> c
                          [] t = "Dim_Product" -> p
                          [] t = "Fact_OrderMetrics" -> f]
         /\ nextKey = Len(p) + 1
  /\ undo = NoTransaction
  /\ issued = <<>>
  /\ preRun = tables
  /\ failure = "none"
  /\ raised = "none"
  /\ runs = 0
  /\ lastFinal = <<>>
  /\ lastClean = FALSE

\* ------------------------------------------------------ process start
Begin(b, e, src, frame) ==
  /\ build' = b
  /\ entry' = e
  /\ source' = src
  /\ df' = frame
  /\ pc' = IF e = "main" THEN "extract_connect" ELSE "load"
  /\ issued' = <<>>
  /\ preRun' = tables
  /\ failure' = "none"
  /\ raised' = "none"
  /\ UNCHANGED <<conns, tables, undo, nextKey>>

\* python etl_<build>.py: __main__ runs extract, transform, load.
StartMain ==
  /\ pc = "idle"
  /\ runs = 0
  /\ runs' = 1
  /\ \E b \in Builds : \E src \in Sources(b) : Begin(b, "main", src, EmptyFrame)
  /\ UNCHANGED <<lastFinal, lastClean>>

\* A load function called on its own with a frame.
StartLoad ==
  /\ pc = "idle"
  /\ runs = 0
  /\ runs' = 1
  /\ \E b \in Builds : \E f \in DirectFrames(b) : Begin(b, "load", <<>>, f)
  /\ UNCHANGED <<lastFinal, lastClean>>

\* The same script run again, the transactional store unchanged.
Rerun ==
  /\ pc = "idle"
  /\ entry = "main"
  /\ runs >= 1
  /\ runs <= MaxReruns
  /\ runs' = runs + 1
  /\ Begin(build, "main", source, EmptyFrame)
  /\ UNCHANGED <<lastFinal, lastClean>>

\* The process ends: its connections go, and the store rolls back what an
\* abandoned connection left uncommitted.
Exit ==
  /\ pc \in {"done", "crashed"}
  /\ pc' = "idle"
  /\ conns' = {}
  /\ tables' = Rollback(tables, undo)
  /\ undo' = NoTransaction
  /\ lastFinal' = Rollback(tables, undo)[TARGET_TABLE(build)]
  /\ lastClean' = (failure = "none" /\ raised = "none")
  /\ df' = EmptyFrame
  /\ UNCHANGED <<build, entry, source, nextKey, issued, preRun, failure, raised, runs>>

\* ------------------------------------------------------------ extract
\* pyodbc.connect(CONNECTION_STRING) in extract_*: a pyodbc.Error is caught
\* and an empty frame returned.
ExtractConnect ==
  /\ pc = "extract_connect"
  /\ \E ok \in BOOLEAN :
       /\ issued' = Append(issued, Event("extract", "CONNECT", "NORTHWND", <<>>))
       /\ IF ok
          THEN /\ conns' = conns \cup {<<"extract", "NORTHWND">>}
               /\ pc' = "extract_read"
               /\ UNCHANGED <<df, failure>>
          ELSE /\ df' = EmptyFrame
               /\ failure' = "extract_connect"
               /\ pc' = "transform"
               /\ UNCHANGED conns
  /\ UNCHANGED <<build, entry, source, tables, undo, nextKey, preRun, raised,
                 runs, lastFinal, lastClean>>

\* What a failing pd.read_sql raises: the driver's pyodbc.Error (raised while
\* rows are fetched), or pandas.errors.DatabaseError, in which pandas wraps an
\* error of cursor.execute and which is no pyodbc.Error.
ReadSqlOutcomes == {"ok", "pyodbc.Error", "DatabaseError"}

\* df = pd.read_sql(sql_query, cnxn); cnxn.close(); return df
ExtractRead ==
  /\ pc = "extract_read"
  /\ \E o \in ReadSqlOutcomes :
       /\ issued' = Append(issued, Event("extract", "QUERY", "NORTHWND", <<>>))
                      \o (IF o = "ok"
                          THEN << Event("extract", "CLOSE", "NORTHWND", <<>>) >>
                          ELSE <<>>)
       /\ CASE o = "ok" ->
                 /\ df' = QueryResult(build, source)
                 /\ conns' = conns \ {<<"extract", "NORTHWND">>}
                 /\ pc' = "transform"
                 /\ UNCHANGED <<failure, raised>>
            [] o = "pyodbc.Error" ->
                 /\ df' = EmptyFrame
                 /\ failure' = "extract_query"
                 /\ pc' = "transform"
                 /\ UNCHANGED <<conns, raised>>
            [] o = "DatabaseError" ->
                 /\ failure' = "extract_query"
                 /\ raised' = "DatabaseError"
                 /\ pc' = "crashed"
                 /\ UNCHANGED <<df, conns>>
  /\ UNCHANGED <<build, entry, source, tables, undo, nextKey, preRun,
                 runs, lastFinal, lastClean>>

\* ---------------------------------------------------------- transform
\* transform_data of a dimension build.
TransformDimension ==
  /\ pc = "transform"
  /\ build \in {"category", "product"}
  /\ LET res == IF build = "category" THEN TransformCategory(df)
                ELSE TransformProduct(df)
     IN IF res.ok
        THEN /\ df' = res.df
             /\ pc' = "load"
             /\ UNCHANGED raised
        ELSE /\ raised' = "KeyError"
             /\ pc' = "crashed"
             /\ UNCHANGED df
  /\ UNCHANGED <<build, entry, source, conns, tables, undo, nextKey, issued,
                 preRun, failure, runs, lastFinal, lastClean>>

\* transform_fact_data, part A.
TransformFactMetric ==
  /\ pc = "transform"
  /\ build = "fact"
  /\ LET res == ComputeMetric(df)
     IN IF res.ok
        THEN /\ df' = res.df
             /\ pc' = "map_connect"
             /\ UNCHANGED raised
        ELSE /\ raised' = "KeyError"
             /\ pc' = "crashed"
             /\ UNCHANGED df
  /\ UNCHANGED <<build, entry, source, conns, tables, undo, nextKey, issued,
                 preRun, failure, runs, lastFinal, lastClean>>

\* transform_fact_data, part B: pyodbc.connect(REPORTING_CONNECTION_STRING).
MapConnect ==
  /\ pc = "map_connect"
  /\ \E ok \in BOOLEAN :
       /\ issued' = Append(issued, Event("map", "CONNECT", "Reporting", <<>>))
       /\ IF ok
          THEN /\ conns' = conns \cup {<<"map", "Reporting">>}
               /\ pc' = "map_read"
               /\ UNCHANGED <<df, failure>>
          ELSE /\ df' = EmptyFrame
               /\ failure' = "map_connect"
               /\ pc' = "load"
               /\ UNCHANGED conns
  /\ UNCHANGED <<build, entry, source, tables, undo, nextKey, preRun, raised,
                 runs, lastFinal, lastClean>>

\* transform_fact_data, parts B to D: the key map is read, the connection
\* closed, and the fact frame merged and shaped.
MapReadAndLookup ==
  /\ pc = "map_read"
  /\ \E o \in ReadSqlOutcomes :
       /\ issued' = Append(issued, Event("map", "QUERY", "Dim_Product", <<>>))
                      \o (IF o = "ok"
                          THEN << Event("map", "CLOSE", "Reporting", <<>>) >>
                          ELSE <<>>)
       /\ CASE o = "ok" ->
                 LET res == LookupAndShape(df, ProductMapQuery(tables["Dim_Product"]))
                 IN /\ conns' = conns \ {<<"map", "Reporting">>}
                    /\ UNCHANGED failure
                    /\ IF res.ok
                       THEN /\ df' = res.df
                            /\ pc' = "load"
                            /\ UNCHANGED raised
                       ELSE /\ raised' = "KeyError"
                            /\ pc' = "crashed"
                            /\ UNCHANGED df
            [] o = "pyodbc.Error" ->
                 /\ df' = EmptyFrame
                 /\ failure' = "map_query"
                 /\ pc' = "load"
                 /\ UNCHANGED <<conns, raised>>
            [] o = "DatabaseError" ->
                 /\ failure' = "map_query"
                 /\ raised' = "DatabaseError"
                 /\ pc' = "crashed"
                 /\ UNCHANGED <<df, conns>>
  /\ UNCHANGED <<build, entry, source, tables, undo, nextKey, preRun,
                 runs, lastFinal, lastClean>>

\* --------------------------------------------------------------- load
\* if df.empty: return
LoadSkipEmpty ==
  /\ pc = "load"
  /\ IsEmpty(df)
  /\ pc' = "done"
  /\ UNCHANGED <<build, entry, source, df, conns, tables, undo, nextKey, issued,
                 preRun, failure, raised, runs, lastFinal, lastClean>>

\* cnxn = pyodbc.connect(REPORTING_CONNECTION_STRING).  When it fails the
\* handler calls cnxn.rollback() on a name that was never bound.
LoadConnect ==
  /\ pc = "load"
  /\ ~IsEmpty(df)
  /\ \E ok \in BOOLEAN :
       /\ issued' = Append(issued, Event("load", "CONNECT", "Reporting", <<>>))
       /\ IF ok
          THEN /\ conns' = conns \cup {<<"load", "Reporting">>}
               /\ pc' = "load_clear"
               /\ UNCHANGED <<failure, raised>>
          ELSE /\ failure' = "load_connect"
               /\ raised' = "UnboundLocalError"
               /\ pc' = "crashed"
               /\ UNCHANGED conns
  /\ UNCHANGED <<build, entry, source, df, tables, undo, nextKey, preRun,
                 runs, lastFinal, lastClean>>

\* cursor.execute(TRUNCATE TABLE / DELETE FROM target).  A pyodbc.Error is
\* caught: rollback, and the function returns with the connection not closed.
\* The store always rejects a TRUNCATE of a referenced table; any clear may
\* fail for another reason (the rule the foreign key applies to a DELETE of
\* referenced rows is the schema's, which the repository does not hold).
LoadClear ==
  /\ pc = "load_clear"
  /\ LET t == TARGET_TABLE(build)
         kind == ClearStatement(build)
     IN \E ok \in (IF TruncateBlocked(kind, t) THEN {FALSE} ELSE BOOLEAN) :
          IF ok
          THEN /\ issued' = Append(issued, Event("load", kind, t, <<>>))
               /\ undo' = [open |-> TRUE, image |-> tables]
               /\ tables' = Cleared(tables, t)
               /\ nextKey' = IF kind = "TRUNCATE" /\ t = "Dim_Product" THEN 1 ELSE nextKey
               /\ pc' = "load_insert"
               /\ UNCHANGED failure
          ELSE /\ issued' = issued \o << Event("load", kind, t, <<>>),
                                         Event("load", "ROLLBACK", t, <<>>) >>
               /\ tables' = Rollback(tables, undo)
               /\ undo' = NoTransaction
               /\ failure' = IF TruncateBlocked(kind, t)
                             THEN "load_clear_blocked" ELSE "load_clear"
               /\ pc' = "done"
               /\ UNCHANGED nextKey
  /\ UNCHANGED <<build, entry, source, df, conns, preRun, raised,
                 runs, lastFinal, lastClean>>

\* The rows are made tuples; load_fact_table raises ValueError when the first
\* has not 9 values (no handler catches it); cursor.executemany inserts them.
LoadInsert ==
  /\ pc = "load_insert"
  /\ LET t == TARGET_TABLE(build)
         data_to_insert == ToTuples(df)
     IN IF build = "fact" /\ Len(data_to_insert) > 0 /\ Len(data_to_insert[1]) # 9
        THEN /\ failure' = "load_check"
             /\ raised' = "ValueError"
             /\ pc' = "crashed"
             /\ UNCHANGED <<tables, undo, nextKey, issued>>
        ELSE \E ok \in (IF ParametersMatch(build, data_to_insert)
                        THEN BOOLEAN ELSE {FALSE}) :
               IF ok
               THEN /\ issued' = Append(issued, Event("load", "INSERT", t, data_to_insert))
                    /\ tables' = [tables EXCEPT
                                    ![t] = @ \o InsertRows(build, data_to_insert, nextKey)]
                    /\ nextKey' = IF GeneratedColumns(build) # {}
                                  THEN nextKey + Len(data_to_insert) ELSE nextKey
                    /\ pc' = "load_commit"
                    /\ UNCHANGED <<undo, failure, raised>>
               ELSE /\ issued' = issued \o << Event("load", "INSERT", t, data_to_insert),
                                              Event("load", "ROLLBACK", t, <<>>) >>
                    /\ tables' = Rollback(tables, undo)
                    /\ undo' = NoTransaction
                    /\ failure' = "load_insert"
                    /\ pc' = "done"
                    /\ UNCHANGED <<nextKey, raised>>
  /\ UNCHANGED <<build, entry, source, df, conns, preRun,
                 runs, lastFinal, lastClean>>

\* cnxn.commit(); cursor.close(); cnxn.close()
LoadCommit ==
  /\ pc = "load_commit"
  /\ LET t == TARGET_TABLE(build)
     IN \E ok \in BOOLEAN :
          IF ok
          THEN /\ issued' = issued \o << Event("load", "COMMIT", t, <<>>),
                                         Event("load", "CLOSE", "Reporting", <<>>) >>
               /\ undo' = NoTransaction
               /\ conns' = conns \ {<<"load", "Reporting">>}
               /\ pc' = "done"
               /\ UNCHANGED <<tables, failure>>
          ELSE /\ issued' = issued \o << Event("load", "COMMIT", t, <<>>),
                                         Event("load", "ROLLBACK", t, <<>>) >>
               /\ tables' = Rollback(tables, undo)
               /\ undo' = NoTransaction
               /\ failure' = "load_commit"
               /\ pc' = "done"
               /\ UNCHANGED conns
  /\ UNCHANGED <<build, entry, source, df, nextKey, preRun, raised,
                 runs, lastFinal, lastClean>>

Next ==
  \/ StartMain
  \/ StartLoad
  \/ Rerun
  \/ Exit
  \/ ExtractConnect
  \/ ExtractRead
  \/ TransformDimension
  \/ TransformFactMetric
  \/ MapConnect
  \/ MapReadAndLookup
  \/ LoadSkipEmpty
  \/ LoadConnect
  \/ LoadClear
  \/ LoadInsert
  \/ LoadCommit

Spec == Init /\ [][Next]_vars

\* ------------------------------------------------------------- claims
Target == TARGET_TABLE(build)

Ended == pc \in {"done", "crashed"}

LoadPcs == {"load", "load_clear", "load_insert", "load_commit"}

\* What the run asked of its connections during one stage.
EventsOf(stage) == SelectSeq(issued, LAMBDA e : e.stage = stage)

HasIssued(op, t) ==
  \E i \in DOMAIN issued : issued[i].op = op /\ issued[i].target = t

\* The frame has no rows or no columns.
NoData(frame) == Len(frame.columns) = 0 \/ Len(frame.data) = 0

\* The load of this run committed.
Committed == failure = "none" /\ HasIssued("COMMIT", Target)

\* The surrogate key the key map gives natural key k, or NULL.
MapValue(dim, k) ==
  IF \E i \in DOMAIN dim : dim[i].Source_ProductID = k
  THEN dim[CHOOSE i \in DOMAIN dim : dim[i].Source_ProductID = k].ProductKey
  ELSE NULL

UniqueNaturalKeys(dim) ==
  \A i, j \in DOMAIN dim :
    dim[i].Source_ProductID = dim[j].Source_ProductID => i = j

LoadFailures ==
  {"load_connect", "load_clear", "load_clear_blocked", "load_check",
   "load_insert", "load_commit"}

\* C1: for every load operation, when a failure occurs after the load has
\* started (connect, clear, column-count check, insert, commit), the target
\* table ends in its pre-run state: never cleared but not reloaded, never
\* partly loaded.
C1_LoadFailureLeavesPreRunState ==
  (Ended /\ failure \in LoadFailures) => tables[Target] = preRun[Target]

\* C2: a load called with an empty transformed set opens no connection, issues
\* neither a clear nor an insert, and leaves the target table unchanged (fact
\* load and both dimension loads).
C2_EmptyLoadIsNoOp ==
  (pc \in LoadPcs \cup {"done"} /\ NoData(df))
     => /\ EventsOf("load") = <<>>
        /\ \A c \in conns : c[1] # "load"
        /\ tables = preRun

\* C2 witness: the fact load has returned on a frame of nine columns and no
\* rows while Fact_OrderMetrics held rows.
C2_Witness ==
  /\ pc = "done"
  /\ build = "fact"
  /\ Len(df.columns) = 9 /\ Len(df.data) = 0
  /\ preRun["Fact_OrderMetrics"] # <<>>

\* C3: transform_fact_data is a left join on the product natural key: with
\* unique natural keys in the key map, every input fact row yields exactly one
\* output row, whose ProductKey is the map's surrogate key when its ProductID
\* is in the map and null when it is not (the empty map included).
C3_LeftJoinOnNaturalKey ==
  (/\ build = "fact" /\ entry = "main" /\ pc = "load" /\ failure = "none"
   /\ UniqueNaturalKeys(tables["Dim_Product"]))
     => /\ Len(df.data) = Len(source)
        /\ \A i \in DOMAIN source :
             /\ df.data[i][1] = source[i][1]
             /\ df.data[i][2] = source[i][2]
             /\ df.data[i][3] = MapValue(tables["Dim_Product"], source[i][2])

\* C3 witness: a transformed fact frame of three rows, two resolved to the
\* same product's key and one left null.
C3_Witness ==
  /\ build = "fact" /\ entry = "main" /\ pc = "load" /\ failure = "none"
  /\ Len(source) = 3
  /\ \E i, j, k \in DOMAIN df.data :
       /\ i # j
       /\ df.data[i][3] # NULL /\ df.data[i][3] = df.data[j][3]
       /\ df.data[k][3] = NULL

\* C4: when loading the product key map fails during a fact build,
\* transform_fact_data returns an empty result and the build issues no clear
\* and no insert on Fact_OrderMetrics, which stays unchanged.
C4_MapFailureReturnsEmpty ==
  (build = "fact" /\ pc # "idle" /\ failure \in {"map_connect", "map_query"})
     => /\ raised = "none"
        /\ NoData(df)
        /\ EventsOf("load") = <<>>
        /\ tables = preRun

\* C5: when extraction fails (connection or query), the extract stage returns
\* an empty result and the build ends as a no-op: the later stages accept the
\* empty result without raising, nothing is cleared or inserted, and the target
\* table is unchanged.
C5_ExtractFailureIsNoOp ==
  (entry = "main" /\ pc # "idle"
   /\ failure \in {"extract_connect", "extract_query"})
     => /\ raised = "none"
        /\ NoData(df)
        /\ EventsOf("load") = <<>>
        /\ tables = preRun

\* C6: in a fact build the column-count failure never occurs after the clear
\* of Fact_OrderMetrics (a frame off the 9-column contract does not reach the
\* load), and no insert of a row with other than 9 columns is issued.
C6_NineColumnsBeforeLoad ==
  (build = "fact" /\ entry = "main" /\ pc # "idle")
     => /\ failure # "load_check"
        /\ raised # "ValueError"
        /\ \A i \in DOMAIN issued :
             issued[i].op = "INSERT" =>
               \A r \in DOMAIN issued[i].rows : Len(issued[i].rows[r]) = 9
        /\ (raised = "KeyError" => EventsOf("load") = <<>>)

\* C6 witness: a fact build has cleared Fact_OrderMetrics and committed an
\* insert of at least one row.
C6_Witness ==
  /\ build = "fact" /\ entry = "main" /\ pc = "done" /\ Committed
  /\ HasIssued("DELETE", "Fact_OrderMetrics")
  /\ \E i \in DOMAIN issued :
       issued[i].op = "INSERT" /\ Len(issued[i].rows) >= 1

\* C7: every stage releases its connection before it ends, on the success
\* path and on every error path: at most one connection is open at any time
\* and none is open when the next stage begins or the build ends.
C7_ConnectionsReleased ==
  /\ Cardinality(conns) <= 1
  /\ pc \in {"transform", "map_connect", "load", "done", "crashed"} => conns = {}

\* C8: the load of a table a foreign key references never issues TRUNCATE:
\* the product load clears Dim_Product with DELETE only and is not rejected
\* for the foreign key Fact_OrderMetrics holds; TRUNCATE is issued only for
\* the unreferenced Dim_Category.
C8_NoFastClearOnReferencedTable ==
  /\ \A i \in DOMAIN issued :
       /\ issued[i].op = "TRUNCATE" =>
            issued[i].target = "Dim_Category" /\ issued[i].target \notin ReferencedTables
       /\ (issued[i].target = "Dim_Product" /\ issued[i].op \in {"TRUNCATE", "DELETE"})
            => issued[i].op = "DELETE"
  /\ failure # "load_clear_blocked"

\* C8 witness: the product load has cleared Dim_Product with DELETE and
\* committed, Dim_Product being referenced by the fact table's foreign key.
C8_Witness ==
  /\ build = "product" /\ pc = "done" /\ Committed
  /\ "Dim_Product" \in ReferencedTables
  /\ HasIssued("DELETE", "Dim_Product")
  /\ tables["Dim_Product"] # <<>>

\* The row the target table is to hold for source row s.
ExpectedRow(b, s, dim) ==
  CASE b = "category" ->
         [Source_CategoryID |-> s[1], CategoryName |-> s[2],
          CategoryDescription |-> s[3]]
    [] b = "product" ->
         [Source_ProductID |-> s[1], ProductName |-> s[2],
          Source_SupplierID |-> s[3], Source_CategoryID |-> s[4],
          QuantityPerUnit |-> s[5], UnitPrice |-> s[6], UnitsInStock |-> s[7],
          Discontinued |-> s[8]]
    [] b = "fact" ->
         [Source_OrderID |-> s[1], Source_ProductID |-> s[2],
          ProductKey |-> MapValue(dim, s[2]), OrderDate |-> s[3],
          RequiredDate |-> s[4], ShippedDate |-> s[5], Quantity |-> s[6],
          Discount |-> s[7], ExtendedPrice |-> s[6] * s[8] * (100 - s[7])]

\* A stored row without the key the store assigned to it.
Written(b, row) ==
  IF b = "product" THEN [c \in DOMAIN row \ {"ProductKey"} |-> row[c]] ELSE row

\* C9: after a build whose extract returned at least one row and whose load
\* committed, the target table holds exactly the extracted rows under their
\* renamed columns, one table row per source row, and none of the rows it held
\* before the run.
C9_TableReplacedByExtractedRows ==
  (pc = "done" /\ entry = "main" /\ Committed /\ Len(source) >= 1)
     => /\ Len(tables[Target]) = Len(source)
        /\ \A i \in DOMAIN source :
             Written(build, tables[Target][i])
               = ExpectedRow(build, source[i], preRun["Dim_Product"])
        /\ build = "product" =>
             \A i \in DOMAIN tables[Target], j \in DOMAIN preRun[Target] :
               tables[Target][i].ProductKey # preRun[Target][j].ProductKey

\* C9 witness: a category build over a source of two rows has committed into
\* a Dim_Category that held rows before.
C9_Witness ==
  /\ build = "category" /\ entry = "main" /\ pc = "done" /\ Committed
  /\ Len(source) = 2
  /\ preRun["Dim_Category"] # <<>>
  /\ Len(tables["Dim_Category"]) = 2

\* C10: a build run twice in succession with unchanged source data (and, for
\* the fact build, an unchanged key map) leaves the target table in the same
\* final state after the second run as after the first.
C10_RerunLeavesSameTable ==
  (/\ pc = "done" /\ entry = "main" /\ runs >= 2
   /\ lastClean /\ failure = "none" /\ raised = "none")
     => tables[Target] = lastFinal
====
